---- MODULE Spec2Model ----
(***************************************************************************)
(* Payment Service (src/app.py): create_payment, update_payment and        *)
(* refund_payment as concurrent request handlers over the Database service. *)
(* Every `await db_request(...)` is one step of a handler; the code that    *)
(* runs between two awaits belongs to the step of the await before it.      *)
(***************************************************************************)
EXTENDS Integers, Sequences, FiniteSets, TLC

\* ------------------------------------------------------------------ bounds
MaxOps == 2          \* requests started in one behaviour

\* the tasks serving requests: a request is served by the first free one
Workers == {1, 2}

\* ------------------------------------------------------------------ values
Pids == {"p1"}                 \* the payments of the Database service
BodyIds == Pids \cup {"p2"}    \* ids a request body may carry
Orders == {"o1"}               \* the orders of the Database service
Oids == Orders \cup {"", "o2"}  \* order ids a payment may carry
Amounts == {-1, 0, 1}
PayloadStatuses == {"pending", "completed", "VOIDED"}

\* a missing dict / a 404 of the Database service / Python's None
Absent == [absent |-> TRUE]

\* PaymentIn: the request body of create_payment and update_payment
PaymentIn ==
  [id : BodyIds, order_id : Oids, amount : Amounts, status : PayloadStatuses]

\* the request bodies the handlers are driven with: a pending payment of
\* amount 1 for order o1, and every body that differs from it in one field
BaseBody == [id |-> "p1", order_id |-> "o1", amount |-> 1, status |-> "pending"]
Bodies ==
  { b \in PaymentIn :
      Cardinality({f \in DOMAIN b : b[f] # BaseBody[f]}) <= 1 }

\* str.lower() on the status strings of the model
Lower(s) ==
  CASE s = "VOIDED" -> "voided"
    [] OTHER -> s

\* dict.get(k, default)
Get(d, k, default) == IF k \in DOMAIN d THEN d[k] ELSE default

\* d[k] = v
Put(d, k, v) == [x \in (DOMAIN d) \cup {k} |-> IF x = k THEN v ELSE d[x]]

\* {}: what db_request returns for a response without content
Empty == [k \in {} |-> ""]

\* the outcomes of one HTTP call to the Database service:
\*   "200"          a 2xx response with a JSON body (for a write, or empty)
\*   "200-empty"    a 2xx response without content to a GET
\*   "200-nojson"   a 2xx response whose body is not JSON: the store acted
\*   "404", "500"   a response with status >= 400 (500: any rejection)
\*   "timeout"      httpx.ConnectTimeout / ReadTimeout, the store did not act
\*   "neterror"     httpx.NetworkError (ConnectError, ReadError, ...), the
\*                  store did not act
\*   "neterror-late" httpx.NetworkError (ReadError) after the store acted
\*   "timeout-late" httpx.ReadTimeout after the store acted on the request
\*   "raised"       another httpx exception (WriteTimeout, PoolTimeout,
\*                  RemoteProtocolError), the store did not act
StoreErrors == {500, 502, 504}
ReadOutcomes ==
  {"200", "200-empty", "200-nojson", "500", "timeout", "neterror", "raised"}
MissingOutcomes == {"404", "500", "timeout", "neterror", "raised"}
WriteOutcomes ==
  {"200", "200-nojson", "500", "timeout", "timeout-late", "neterror",
   "neterror-late", "raised"}

\* the Database service carried out the request
applied(o) ==
  o \in {"200", "200-empty", "200-nojson", "timeout-late", "neterror-late"}

\* db_request returns (no exception)
returns(o) == o \in {"200", "200-empty"}

\* db_request's return value: resp.json() if resp.content else {}
returned(o, body) == IF o = "200-empty" THEN Empty ELSE body

\* db_request raises HTTPException: 504 for the two timeouts it catches,
\* 502 for a network error, the response's own status when it is >= 400
raises_http(o) ==
  o \in {"404", "500", "timeout", "timeout-late", "neterror", "neterror-late"}

status_of(o) ==
  CASE o = "404" -> 404
    [] o = "500" -> 500
    [] o \in {"timeout", "timeout-late"} -> 504
    [] o \in {"neterror", "neterror-late"} -> 502
    [] OTHER -> 200

\* responses of the handlers
Ok(code, body) == [code |-> code, body |-> body, detail |-> ""]
Err(code, detail) == [code |-> code, body |-> Absent, detail |-> detail]
NoResp == [code |-> 0, body |-> Absent, detail |-> ""]

\* an exception that is not an HTTPException leaves the handler: the
\* framework's 500 Internal Server Error
Unhandled == Err(500, "unhandled exception")

\* response_model=PaymentOut: what a handler returns must carry the four
\* fields of PaymentIn; otherwise the framework's response validation
\* fails and the caller gets the 500
PaymentFields == {"id", "order_id", "amount", "status"}
response_model(code, body) ==
  IF PaymentFields \subseteq DOMAIN body THEN Ok(code, body) ELSE Unhandled

\* what a db_request that does not return raises, as the response it becomes
\* when the handler lets it through: the HTTPException with the Database
\* service's status and detail, or the exception db_request did not translate
db_error(o) ==
  IF raises_http(o) THEN Err(status_of(o), "db") ELSE Unhandled

VARIABLES
  store,      \* Database service: /payments/{pid}
  orders,     \* Database service: /orders/{oid}
  sync,       \* PROCESS_PAYMENTS_SYNC
  started,    \* number of requests started
  pc,         \* per worker: the await the handler is at
  op,         \* per worker: the handler running ("create", "update", "refund")
  prev,       \* per worker: the request it finished before this one (a
              \* history variable, kept by SeqSpec only)
  pid,        \* per worker: path parameter (payload.id for create)
  payload,    \* per worker: request body
  seen,       \* per worker: what the handler's GET returned
  payment,    \* per worker: the dict the handler is about to write
  refund,     \* per worker: <<refund_success, refund_error>>
  order,      \* per worker: the order dict of the annotation fallback
  resp,       \* per worker: the response of the finished request
  calls       \* per worker: the Database calls of the request, in order

vars == <<store, orders, sync, started, pc, op, prev, pid, payload, seen, payment,
          refund, order, resp, calls>>

\* ------------------------------------------------------------ pure helpers

\* _simulate_payment_processing: amount > 0 => completed; otherwise failed
\* (its only caller passes PaymentIn.amount, a float that is never None)
simulate_payment_processing(amount) ==
  IF amount > 0 THEN "completed" ELSE "failed"

already_refunded_only(p) == Lower(Get(p, "status", "")) = "refunded"

\* refund_payment step 2: already refunded/voided
already_refunded(p) ==
  LET pstatus == Lower(Get(p, "status", ""))
  IN pstatus \in {"refunded", "voided"}

refund_decision_lenient(p) ==
  IF Get(p, "amount", 0) < 0
    THEN <<FALSE, "Invalid amount for refund">>
    ELSE <<TRUE, "">>

\* refund_payment step 3: <<refund_success, refund_error>>; a payment the
\* Database service returns without an amount (or with null) has none
refund_decision(p) ==
  LET amount == Get(p, "amount", 0)
  IN IF "amount" \notin DOMAIN p \/ amount <= 0
       THEN <<FALSE, "Invalid amount for refund">>
       ELSE <<TRUE, "">>

refund_status_failed(refund_success) == "refund_failed"

\* refund_payment step 4: the status written for a refund outcome
refund_status(refund_success) ==
  IF refund_success THEN "refunded" ELSE "refund_failed"

\* refund_payment: `except HTTPException` around the status write raises the
\* 502; an exception db_request did not translate is not caught
refund_persist_error(o) ==
  IF raises_http(o)
    THEN Err(502, "Failed to persist payment refund status")
    ELSE db_error(o)

create_resolves_always(flag, payment_dict) ==
  /\ Lower(Get(payment_dict, "status", "")) = "pending"
  /\ simulate_payment_processing(Get(payment_dict, "amount", 0))
       # Get(payment_dict, "status", "")

\* create_payment step 3: does create resolve the inserted payment itself
create_resolves(flag, payment_dict) ==
  /\ flag
  /\ Lower(Get(payment_dict, "status", "")) = "pending"
  /\ simulate_payment_processing(Get(payment_dict, "amount", 0))
       # Get(payment_dict, "status", "")

\* _record_refund_on_order_best_effort: `if not order_id: return`
annotates(order_id) == order_id # ""

\* the fields the annotation merges into the order
annotated(o, payment_id, rf) ==
  Put(Put(o, "refund_attempt", <<payment_id, rf[1], rf[2]>>),
      "payment_refund_status", refund_status(rf[1]))

\* ----------------------------------------------------------------- state

NoRefund == <<FALSE, "">>
NoPrev == [op |-> "", pid |-> "", payload |-> Absent, resp |-> NoResp]

TypeOK ==
  /\ DOMAIN store = Pids
  /\ DOMAIN orders = Orders
  /\ sync \in BOOLEAN
  /\ started \in 0..MaxOps
  /\ \A w \in Workers : resp[w].code \in {0, 200, 201, 404, 502} \cup StoreErrors

\* the Database service starts with no payments, or with a completed payment
\* stored before: one of amount 1, or one written by another client without
\* an amount
StoredBefore ==
  { [id |-> "p1", order_id |-> "o1", amount |-> 1, status |-> "completed"],
    [id |-> "p1", order_id |-> "o1", status |-> "completed"] }

InitStores ==
  { [k \in Pids |-> Absent] } \cup { [k \in Pids |-> r] : r \in StoredBefore }

Init ==
  /\ store \in InitStores
  /\ orders = [o \in Orders |-> [id |-> o]]
  /\ sync \in BOOLEAN
  /\ started = 0
  /\ pc = [w \in Workers |-> "idle"]
  /\ op = [w \in Workers |-> ""]
  /\ prev = [w \in Workers |-> NoPrev]
  /\ pid = [w \in Workers |-> ""]
  /\ payload = [w \in Workers |-> Absent]
  /\ seen = [w \in Workers |-> Absent]
  /\ payment = [w \in Workers |-> Absent]
  /\ refund = [w \in Workers |-> NoRefund]
  /\ order = [w \in Workers |-> Absent]
  /\ resp = [w \in Workers |-> NoResp]
  /\ calls = [w \in Workers |-> <<>>]

free(w) == pc[w] \in {"idle", "done"}

\* a request that arrives is served by w
accepts(w) ==
  /\ free(w)
  /\ \A v \in Workers : v < w => ~free(v)
  /\ started < MaxOps

\* the handler `kind` starts on w
Begin(w, kind, id, body) ==
  /\ started' = started + 1
  /\ pc' = [pc EXCEPT ![w] = kind \o "_get"]
  /\ op' = [op EXCEPT ![w] = kind]
  /\ pid' = [pid EXCEPT ![w] = id]
  /\ payload' = [payload EXCEPT ![w] = body]
  /\ seen' = [seen EXCEPT ![w] = Absent]
  /\ payment' = [payment EXCEPT ![w] = Absent]
  /\ refund' = [refund EXCEPT ![w] = NoRefund]
  /\ order' = [order EXCEPT ![w] = Absent]
  /\ resp' = [resp EXCEPT ![w] = NoResp]
  /\ calls' = [calls EXCEPT ![w] = <<>>]
  /\ UNCHANGED <<store, orders, sync>>

\* the handler of worker w responds with r
Respond(w, r) ==
  /\ pc' = [pc EXCEPT ![w] = "done"]
  /\ resp' = [resp EXCEPT ![w] = r]

Goto(w, at) ==
  /\ pc' = [pc EXCEPT ![w] = at]
  /\ UNCHANGED resp

\* one call of the Database service is added to the request's calls
Called(w, what, o) ==
  calls' = [calls EXCEPT ![w] = Append(@, <<what, o>>)]

\* GET /payments/{id}: the outcomes for a stored record and for a missing one
get_outcomes(id) ==
  IF store[id] = Absent THEN MissingOutcomes ELSE ReadOutcomes

\* ---------------------------------------------------------- create_payment

create_request(w) ==
  /\ accepts(w)
  /\ \E body \in {b \in Bodies : b.id \in Pids} : Begin(w, "create", body.id, body)

create_payment(w) == create_request(w) /\ UNCHANGED prev

create_found_swallows(w, o) ==
  IF returns(o) THEN
       /\ Respond(w, response_model(201, returned(o, store[pid[w]])))
       /\ seen' = [seen EXCEPT ![w] = returned(o, store[pid[w]])]
  ELSE /\ Goto(w, "create_post")
       /\ UNCHANGED seen

\* step 1: existing = await db_request("GET", /payments/{payload.id});
\* return existing; except HTTPException: re-raised unless it is a 404
create_found(w, o) ==
  IF returns(o) THEN
       /\ Respond(w, response_model(201, returned(o, store[pid[w]])))
       /\ seen' = [seen EXCEPT ![w] = returned(o, store[pid[w]])]
  ELSE IF raises_http(o) /\ status_of(o) = 404 THEN
       /\ Goto(w, "create_post")
       /\ UNCHANGED seen
  ELSE /\ Respond(w, db_error(o))
       /\ UNCHANGED seen

create_get(w) ==
  /\ pc[w] = "create_get"
  /\ \E o \in get_outcomes(pid[w]) :
       /\ Called(w, "GET /payments", o)
       /\ create_found(w, o)
  /\ UNCHANGED <<store, orders, sync, started, op, prev, pid, payload, payment, refund, order>>

payment_dict_pending(body) == Put(body, "status", "pending")

\* payment_dict = payload.dict(): the record create_payment inserts
payment_dict(body) == body

\* step 2: await db_request("POST", "/payments", json=payment_dict), step 3
create_post(w) ==
  /\ pc[w] = "create_post"
  /\ \E o \in WriteOutcomes :
       /\ Called(w, "POST /payments", o)
       /\ store' = IF applied(o)
                     THEN [store EXCEPT ![pid[w]] = payment_dict(payload[w])]
                     ELSE store
       /\ IF ~returns(o) THEN
            /\ Respond(w, db_error(o))
            /\ UNCHANGED payment
          ELSE IF create_resolves(sync, payment_dict(payload[w])) THEN
            /\ payment' = [payment EXCEPT ![w] =
                 Put(payment_dict(payload[w]), "status",
                     simulate_payment_processing(
                       Get(payment_dict(payload[w]), "amount", 0)))]
            /\ Goto(w, "create_put")
          ELSE
            /\ Respond(w, response_model(201, payment_dict(payload[w])))
            /\ UNCHANGED payment
  /\ UNCHANGED <<orders, sync, started, op, prev, pid, payload, seen, refund, order>>

\* step 3: await db_request("PUT", /payments/{payload.id}, json=updated);
\* return updated; except HTTPException: pass; return payment_dict
create_put(w) ==
  /\ pc[w] = "create_put"
  /\ \E o \in WriteOutcomes :
       /\ Called(w, "PUT /payments", o)
       /\ store' = IF applied(o) THEN [store EXCEPT ![pid[w]] = payment[w]]
                   ELSE store
       /\ Respond(w, IF returns(o) THEN response_model(201, payment[w])
                     ELSE IF raises_http(o)
                       THEN response_model(201, payment_dict(payload[w]))
                       ELSE db_error(o))
  /\ UNCHANGED <<orders, sync, started, op, prev, pid, payload, seen, payment, refund, order>>

\* ---------------------------------------------------------- update_payment

update_request(w) ==
  /\ accepts(w)
  /\ \E id \in Pids, body \in Bodies : Begin(w, "update", id, body)

update_payment(w) == update_request(w) /\ UNCHANGED prev

lookup_failed_upserts(w, o) ==
  IF o = "404" /\ op[w] = "update"
    THEN Goto(w, "update_put")
    ELSE Respond(w, IF o = "404" THEN Err(404, "Payment not found")
                    ELSE db_error(o))

\* except HTTPException as e: a 404 of the lookup is answered as
\* 404 "Payment not found", any other error is re-raised (update_payment
\* and refund_payment share the handler)
lookup_failed(w, o) ==
  IF raises_http(o) /\ status_of(o) = 404
    THEN Respond(w, Err(404, "Payment not found"))
    ELSE Respond(w, db_error(o))

update_get(w) ==
  /\ pc[w] = "update_get"
  /\ \E o \in get_outcomes(pid[w]) :
       /\ Called(w, "GET /payments", o)
       /\ IF returns(o) THEN
            /\ seen' = [seen EXCEPT ![w] = returned(o, store[pid[w]])]
            /\ Goto(w, "update_put")
          ELSE
            /\ lookup_failed(w, o)
            /\ UNCHANGED seen
  /\ UNCHANGED <<store, orders, sync, started, op, prev, pid, payload, payment, refund, order>>

update_put(w) ==
  /\ pc[w] = "update_put"
  /\ \E o \in WriteOutcomes :
       /\ Called(w, "PUT /payments", o)
       /\ store' = IF applied(o) THEN [store EXCEPT ![pid[w]] = payload[w]]
                   ELSE store
       /\ Respond(w, IF returns(o) THEN response_model(200, payload[w]) ELSE db_error(o))
  /\ UNCHANGED <<orders, sync, started, op, prev, pid, payload, seen, payment, refund, order>>

\* ---------------------------------------------------------- refund_payment

refund_request(w) ==
  /\ accepts(w)
  /\ \E id \in Pids : Begin(w, "refund", id, Absent)

refund_payment(w) == refund_request(w) /\ UNCHANGED prev

\* steps 2 to 4 on the payment the lookup returned: the idempotent return,
\* or the refund outcome and the status to write
refund_decide(w, p) ==
  /\ seen' = [seen EXCEPT ![w] = p]
  /\ IF already_refunded(p) THEN
       /\ Respond(w, response_model(200, p))
       /\ UNCHANGED <<payment, refund>>
     ELSE
       /\ refund' = [refund EXCEPT ![w] = refund_decision(p)]
       /\ payment' = [payment EXCEPT ![w] =
            Put(p, "status", refund_status(refund_decision(p)[1]))]
       /\ Goto(w, "refund_put")

\* step 1: payment = await db_request("GET", /payments/{pid})
refund_get(w) ==
  /\ pc[w] = "refund_get"
  /\ \E o \in get_outcomes(pid[w]) :
       /\ Called(w, "GET /payments", o)
       /\ IF returns(o) THEN refund_decide(w, returned(o, store[pid[w]]))
          ELSE
            /\ lookup_failed(w, o)
            /\ UNCHANGED <<seen, payment, refund>>
  /\ UNCHANGED <<store, orders, sync, started, op, prev, pid, payload, order>>

after_refund_write_annotates(w, o) ==
  IF annotates(Get(payment[w], "order_id", "")) THEN Goto(w, "annotate_post")
  ELSE IF ~returns(o) THEN Respond(w, refund_persist_error(o))
  ELSE Goto(w, "refund_read")

\* where refund_payment goes after the status write came back with `o`:
\* the 502 (or the exception db_request let through), the annotation, or
\* (no order_id) the fresh read
after_refund_write(w, o) ==
  IF ~returns(o) THEN Respond(w, refund_persist_error(o))
  ELSE IF annotates(Get(payment[w], "order_id", "")) THEN Goto(w, "annotate_post")
  ELSE Goto(w, "refund_read")

\* step 4: await db_request("PUT", /payments/{pid}, json=payment)
refund_put(w) ==
  /\ pc[w] = "refund_put"
  /\ \E o \in WriteOutcomes :
       /\ Called(w, "PUT /payments", o)
       /\ store' = IF applied(o) THEN [store EXCEPT ![pid[w]] = payment[w]]
                   ELSE store
       /\ after_refund_write(w, o)
  /\ UNCHANGED <<orders, sync, started, op, prev, pid, payload, seen, payment, refund, order>>

annotation_failed_retries(w, o) == Goto(w, "annotate_post")

annotation_failed_raises(w, o) == Respond(w, db_error(o))

\* the fallback's `except HTTPException: pass` and `except Exception: pass`:
\* a failed call of the fallback ends the annotation and nothing else
annotation_failed(w, o) == Goto(w, "refund_read")

\* the order the annotation is about
order_of(w) == Get(payment[w], "order_id", "")

\* GET /orders/{oid}: an order id outside the Database service's orders is
\* not found
stored_order(oid) == IF oid \in Orders THEN orders[oid] ELSE Absent

\* the dedicated call is made with httpx directly: a status, or an exception
\* ("timeout": any exception before the store acted); its body is not read
DedicatedOutcomes == {"200", "500", "timeout", "timeout-late"}

dedicated_done_never(o) == FALSE

\* `if resp.status_code < 400: return`: the dedicated call settled the
\* annotation
dedicated_done(o) == o = "200"

\* _record_refund_on_order_best_effort: POST /orders/{oid}/refund-metadata
annotate_post(w) ==
  /\ pc[w] = "annotate_post"
  /\ \E o \in DedicatedOutcomes :
       /\ Called(w, "POST /orders/refund-metadata", o)
       /\ orders' = IF applied(o) /\ stored_order(order_of(w)) # Absent
                      THEN [orders EXCEPT ![order_of(w)] =
                              annotated(@, pid[w], refund[w])]
                      ELSE orders
       /\ IF dedicated_done(o) THEN Goto(w, "refund_read")
          ELSE Goto(w, "annotate_get")
  /\ UNCHANGED <<store, sync, started, op, prev, pid, payload, seen, payment, refund, order>>

\* fallback: order = await db_request("GET", /orders/{oid})
annotate_get(w) ==
  /\ pc[w] = "annotate_get"
  /\ \E o \in (IF stored_order(order_of(w)) = Absent THEN MissingOutcomes
               ELSE ReadOutcomes) :
       /\ Called(w, "GET /orders", o)
       /\ IF returns(o) THEN
            /\ order' = [order EXCEPT ![w] =
                 annotated(returned(o, orders[order_of(w)]), pid[w], refund[w])]
            /\ Goto(w, "annotate_put")
          ELSE
            /\ UNCHANGED order
            /\ annotation_failed(w, o)
  /\ UNCHANGED <<store, orders, sync, started, op, prev, pid, payload, seen, payment, refund>>

\* fallback: await db_request("PUT", /orders/{oid}, json=order), swallowed
annotate_put(w) ==
  /\ pc[w] = "annotate_put"
  /\ \E o \in WriteOutcomes :
       /\ Called(w, "PUT /orders", o)
       /\ orders' = IF applied(o) /\ order_of(w) \in Orders
                      THEN [orders EXCEPT ![order_of(w)] = order[w]]
                      ELSE orders
       /\ IF returns(o) THEN Goto(w, "refund_read") ELSE annotation_failed(w, o)
  /\ UNCHANGED <<store, sync, started, op, prev, pid, payload, seen, payment, refund, order>>

\* step 6: updated = await db_request("GET", /payments/{pid}); return updated
refund_read(w) ==
  /\ pc[w] = "refund_read"
  /\ \E o \in get_outcomes(pid[w]) :
       /\ Called(w, "GET /payments", o)
       /\ Respond(w, IF returns(o) THEN response_model(200, returned(o, store[pid[w]]))
                     ELSE db_error(o))
  /\ UNCHANGED <<store, orders, sync, started, op, prev, pid, payload, seen, payment, refund, order>>

\* ------------------------------------------------------------------ system

\* concurrent requests: the handler tasks interleave at their awaits
Next ==
  \E w \in Workers :
    \/ create_payment(w)
    \/ create_get(w)
    \/ create_post(w)
    \/ create_put(w)
    \/ update_payment(w)
    \/ update_get(w)
    \/ update_put(w)
    \/ refund_payment(w)
    \/ refund_get(w)
    \/ refund_put(w)
    \/ annotate_post(w)
    \/ annotate_get(w)
    \/ annotate_put(w)
    \/ refund_read(w)

Spec == Init /\ [][Next]_vars

\* one request at a time, each remembering the request finished before it
Remember(w) ==
  prev' = [prev EXCEPT ![w] = [op |-> op[w], pid |-> pid[w],
                               payload |-> payload[w], resp |-> resp[w]]]

next_create_payment == create_request(1) /\ Remember(1)
next_update_payment == update_request(1) /\ Remember(1)
next_refund_payment == refund_request(1) /\ Remember(1)

NextSeq ==
  \/ next_create_payment
  \/ next_update_payment
  \/ next_refund_payment
  \/ create_get(1)
  \/ create_post(1)
  \/ create_put(1)
  \/ update_get(1)
  \/ update_put(1)
  \/ refund_get(1)
  \/ refund_put(1)
  \/ annotate_post(1)
  \/ annotate_get(1)
  \/ annotate_put(1)
  \/ refund_read(1)

SeqSpec == Init /\ [][NextSeq]_vars

\* ------------------------------------------------------------------ claims

\* the calls of w's request so far
Issued(w, what) == \E i \in 1..Len(calls[w]) : calls[w][i][1] = what
IssuedWith(w, what, code) == \E i \in 1..Len(calls[w]) : calls[w][i] = <<what, code>>
Count(w, what) == Cardinality({i \in 1..Len(calls[w]) : calls[w][i][1] = what})
Finished(w, kind) == op[w] = kind /\ pc[w] = "done"

Last(w) == calls[w][Len(calls[w])]
Terminal(p) == Lower(Get(p, "status", "")) \in {"refunded", "voided"}
PaymentWrites == {"POST /payments", "PUT /payments"}
AnnotationCalls == {"POST /orders/refund-metadata", "GET /orders", "PUT /orders"}

\* C1: create_payment issues its POST /payments only while the store holds
\* no payment for the key, as its existence check found (the check and the
\* insert act as one atomic step, so one insert is issued per key).
C1_CheckAndInsertAtomic ==
  [][\A w \in Workers :
       (pc[w] = "create_post" /\ pc'[w] # pc[w]) => store[pid[w]] = Absent]_vars

\* the request before this one was a create_payment for the same id that
\* answered 201
ReplayOfCreate ==
  /\ op[1] = "create"
  /\ prev[1].op = "create" /\ prev[1].pid = pid[1] /\ prev[1].resp.code = 201

\* C2: a create_payment that follows a create_payment which returned a
\* payment for the same id issues no insert and no update and, when it
\* answers 201, returns the payment the first call returned.
C2_ReplayReturnsSamePayment ==
  ReplayOfCreate
  => /\ \A c \in PaymentWrites : ~Issued(1, c)
     /\ (pc[1] = "done" /\ resp[1].code = 201)
          => resp[1].body = prev[1].resp.body

\* C3: once the stored status of a payment is refunded or voided, no write of
\* create_payment's resolution, update_payment or refund_payment stores
\* pending or completed for it.
C3_StatusOnlyMovesForward ==
  [][\A w \in Workers :
       (/\ pc[w] \in {"create_put", "update_put", "refund_put"}
        /\ pc'[w] # pc[w]
        /\ Terminal(store[pid[w]]))
       => Get(store'[pid[w]], "status", "") \notin {"pending", "completed"}]_vars

\* C4: refund_payment goes on to write a refund status only for a payment
\* whose status it read as completed (or captured).
C4_RefundOnlyFromCompleted ==
  \A w \in Workers :
    (op[w] = "refund" /\ Issued(w, "PUT /payments")
       /\ calls[w][1] = <<"GET /payments", "200">>)
    => Lower(Get(seen[w], "status", "")) \in {"completed", "captured"}

\* C5: refund_payment writes the payment only while the store still holds
\* the record it read (its read-modify-write is atomic).
C5_NoStaleRefundWrite ==
  [][\A w \in Workers :
       (/\ pc[w] = "refund_put" /\ pc'[w] # pc[w]
        /\ calls[w][1] = <<"GET /payments", "200">>
        /\ Last(w)' = <<"PUT /payments", "200">>)
       => store[pid[w]] = seen[w]]_vars

\* C6: refund_payment on a payment read as refunded or voided returns that
\* record with 200 after its one GET: no write to the payment store and no
\* annotation call.
C6_RefundReplayIsReadOnly ==
  \A w \in Workers :
    (op[w] = "refund" /\ seen[w] # Absent /\ Terminal(seen[w]))
    => /\ pc[w] = "done"
       /\ resp[w] = Ok(200, seen[w])
       /\ calls[w] = << <<"GET /payments", "200">> >>

C6_Replayed ==
  \E w \in Workers :
    /\ Finished(w, "refund") /\ Terminal(seen[w])
    /\ resp[w].code = 200 /\ store[pid[w]] = seen[w]

\* the ways the refund's status write can fail: a rejection, a timeout
\* (before or after the store acted), another transport exception
WriteErrors ==
  {"500", "timeout", "timeout-late", "neterror", "neterror-late", "raised"}

\* C7: when the PUT of the refund status fails, refund_payment responds 502
\* "Failed to persist payment refund status", whatever the store's error.
C7_FailedWriteIs502 ==
  \A w \in Workers :
    (op[w] = "refund"
       /\ \E e \in WriteErrors : IssuedWith(w, "PUT /payments", e))
    => /\ pc[w] = "done"
       /\ resp[w] = Err(502, "Failed to persist payment refund status")

\* the response the closing GET of a refund decides, for the record `p`
Closing(o, p) ==
  CASE o = "200" -> IF PaymentFields \subseteq DOMAIN p THEN Ok(200, p)
                    ELSE Unhandled
    [] o = "500" -> Err(500, "db")
    [] o = "timeout" -> Err(504, "db")
    [] o = "neterror" -> Err(502, "db")
    [] OTHER -> Unhandled

\* C8: with one request at a time, once the refund status is written the
\* stored payment stays the record written, and the response is decided by
\* the closing GET alone (the record written, the 500 of the response
\* validation when that record lacks a field of PaymentOut, or that GET's
\* error), whatever the annotation calls returned.
C8_AnnotationNeverAffectsRefund ==
  (op[1] = "refund" /\ IssuedWith(1, "PUT /payments", "200"))
  => /\ store[pid[1]] = payment[1]
     /\ pc[1] = "done" =>
          /\ Last(1)[1] = "GET /payments"
          /\ resp[1] = Closing(Last(1)[2], payment[1])

C8_AnnotationFailed ==
  /\ Finished(1, "refund") /\ resp[1] = Ok(200, payment[1])
  /\ \E e \in {"500", "timeout"} : IssuedWith(1, "POST /orders/refund-metadata", e)
  /\ \E e \in WriteErrors : IssuedWith(1, "PUT /orders", e)

\* C9: every annotation call of a refund_payment comes after its successful
\* PUT of the refund status; after a failed PUT no annotation call is issued.
C9_AnnotationAfterWrite ==
  \A w \in Workers : \A i \in 1..Len(calls[w]) :
    calls[w][i][1] \in AnnotationCalls
    => /\ \E j \in 1..(i - 1) : calls[w][j] = <<"PUT /payments", "200">>
       /\ \A j \in 1..Len(calls[w]) :
            calls[w][j][1] = "PUT /payments" => calls[w][j][2] = "200"

C9_Annotated ==
  \E w \in Workers :
    /\ op[w] = "refund"
    /\ Len(calls[w]) >= 3
    /\ calls[w][2] = <<"PUT /payments", "200">>
    /\ calls[w][3][1] = "POST /orders/refund-metadata"

\* a payment read by refund_payment that is not refunded/voided and has no
\* amount or an amount <= 0
NoRefundableAmount(p) ==
  /\ p # Absent
  /\ ~Terminal(p)
  /\ ("amount" \notin DOMAIN p \/ Get(p, "amount", 0) <= 0)

\* C10: for a payment with amount <= 0 (or none) that is not refunded or
\* voided, a successful PUT of refund_payment stores status refund_failed, a
\* failed one ends the request with an error, and the request answers 200
\* only after a successful PUT.
C10_NonPositiveAmountFailsRefund ==
  [][\A w \in Workers :
       (op[w] = "refund" /\ NoRefundableAmount(seen[w]))
       => /\ (pc[w] = "refund_put" /\ pc'[w] # pc[w])
               => IF Last(w)'[2] = "200"
                    THEN Get(store'[pid[w]], "status", "") = "refund_failed"
                    ELSE pc'[w] = "done" /\ resp'[w].code >= 400
          /\ (pc'[w] = "done" /\ resp'[w].code = 200)
               => IssuedWith(w, "PUT /payments", "200")']_vars

C10_RefundFailedStored ==
  \E w \in Workers :
    /\ Finished(w, "refund") /\ resp[w].code = 200
    /\ NoRefundableAmount(seen[w]) /\ Get(seen[w], "amount", 1) = 0
    /\ store[pid[w]].status = "refund_failed"


\* the payment-store calls of request w all returned 200
PaymentCallsOk(w) ==
  \A i \in 1..Len(calls[w]) :
    calls[w][i][1] \in PaymentWrites \cup {"GET /payments"} => calls[w][i][2] = "200"

\* a refund_payment that directly follows a create_payment which returned a
\* payment of amount > 0 for the same id
RefundAfterCreate ==
  /\ Finished(1, "refund") /\ PaymentCallsOk(1)
  /\ prev[1].op = "create" /\ prev[1].pid = pid[1] /\ prev[1].resp.code = 201
  /\ Get(prev[1].resp.body, "amount", 0) > 0

RefundedEverywhere ==
  /\ resp[1].code = 200
  /\ Get(resp[1].body, "status", "") = "refunded"
  /\ Get(store[pid[1]], "status", "") = "refunded"

\* C11 (as stated): for every amount > 0, with every payment-store call
\* succeeding and one request at a time, a create_payment followed by a
\* refund_payment answers 200 with status refunded, which is also stored.
C11_CreateThenRefundIsRefunded == RefundAfterCreate => RefundedEverywhere

\* C11 (amended): the same, for a payment that create_payment did not return
\* with status voided.
C11_CreateThenRefundUnlessVoided ==
  (RefundAfterCreate /\ Lower(Get(prev[1].resp.body, "status", "")) # "voided")
  => RefundedEverywhere

C11_Refunded ==
  /\ RefundAfterCreate /\ RefundedEverywhere
  /\ prev[1].payload.status = "pending"
  /\ Count(1, "PUT /payments") = 1


\* C12: the record stored under payment id k carries id = k.
C12_StoredIdIsKey ==
  \A k \in Pids : store[k] # Absent => Get(store[k], "id", "") = k


\* the step in which the store carries out create_payment's POST /payments
Inserts(w) ==
  pc[w] = "create_post" /\ pc'[w] # pc[w] /\ applied(Last(w)'[2])

\* C13 (as stated): every record create_payment inserts is pending.
C13_InsertedIsPending ==
  [][\A w \in Workers :
       Inserts(w) => Lower(Get(store'[pid[w]], "status", "")) = "pending"]_vars

\* C13 (amended): every record create_payment inserts is the request body
\* as sent, with the status the body carries (pending only if it says so).
C13_InsertedIsPayload ==
  [][\A w \in Workers : Inserts(w) => store'[pid[w]] = payload[w]]_vars

C13_InsertedCompleted ==
  \E w \in Workers :
    /\ op[w] = "create" /\ IssuedWith(w, "POST /payments", "200")
    /\ payload[w].status = "completed"
    /\ store[pid[w]] = payload[w]


\* C14: a request issues each annotation call at most once; the fallback GET
\* of the order directly follows a dedicated call that failed, the fallback
\* PUT directly follows that GET's 200, and nothing is retried.
C14_OneDedicatedOneFallback ==
  \A w \in Workers :
    /\ \A c \in AnnotationCalls : Count(w, c) <= 1
    /\ \A i \in 1..Len(calls[w]) :
         /\ calls[w][i][1] = "GET /orders"
              => /\ i > 1
                 /\ calls[w][i - 1][1] = "POST /orders/refund-metadata"
                 /\ calls[w][i - 1][2] # "200"
         /\ calls[w][i][1] = "PUT /orders"
              => /\ i > 1
                 /\ calls[w][i - 1][1] = "GET /orders"
                 /\ calls[w][i - 1][2] \in {"200", "200-empty"}
         /\ calls[w][i][1] = "POST /orders/refund-metadata"
              => i > 1 /\ calls[w][i - 1] = <<"PUT /payments", "200">>

C14_FellBack ==
  \E w \in Workers :
    /\ Finished(w, "refund")
    /\ Count(w, "POST /orders/refund-metadata") = 1
    /\ Count(w, "GET /orders") = 1
    /\ Count(w, "PUT /orders") = 1
    /\ Last(w)[1] = "GET /payments"


NotFound(w) ==
  /\ op[w] \in {"refund", "update"}
  /\ Len(calls[w]) >= 1
  /\ calls[w][1] = <<"GET /payments", "404">>

\* C15: a refund or an update whose lookup finds no payment answers 404
\* "Payment not found" and has issued no call but that lookup: no write to
\* the payment, no annotation.
C15_NotFoundWritesNothing ==
  \A w \in Workers :
    NotFound(w) =>
      /\ pc[w] = "done"
      /\ resp[w] = Err(404, "Payment not found")
      /\ Len(calls[w]) = 1

C15_UpdateAndRefundNotFound ==
  /\ NotFound(1) /\ op[1] = "refund" /\ pc[1] = "done"
  /\ prev[1].op = "update" /\ prev[1].resp = Err(404, "Payment not found")
  /\ store[pid[1]] = Absent


\* the store calls on the longest path of each handler: create GET, POST,
\* PUT; update GET, PUT; refund GET, PUT, the three annotation calls and
\* the closing GET
MaxCalls(kind) ==
  CASE kind = "create" -> 3
    [] kind = "update" -> 2
    [] kind = "refund" -> 6
    [] OTHER -> 0

HandlerStep(w) ==
  \/ create_get(w) \/ create_post(w) \/ create_put(w)
  \/ update_get(w) \/ update_put(w)
  \/ refund_get(w) \/ refund_put(w)
  \/ annotate_post(w) \/ annotate_get(w) \/ annotate_put(w)
  \/ refund_read(w)

\* C16: a request never issues more store calls than its handler's longest
\* path, and a request that has not responded yet always has its next step
\* enabled, whatever the store answered so far: it cannot loop, retry
\* without end or stall.
C16_BoundedCallsThenResponse ==
  \A w \in Workers :
    /\ Len(calls[w]) <= MaxCalls(op[w])
    /\ pc[w] = "done" => resp[w] # NoResp
    /\ ~free(w) => ENABLED HandlerStep(w)

C16_LongestRefund ==
  \E w \in Workers :
    /\ Finished(w, "refund")
    /\ Len(calls[w]) = MaxCalls("refund")
    /\ resp[w] # NoResp


\* C17: when a refund answers with an error, the stored status of the
\* payment is the one the refund's lookup saw: an error response means the
\* refund changed nothing. (Requests run one at a time here, so a change
\* of the record is the refund's own.)
C17_ErrorMeansStatusUnchanged ==
  ( /\ Finished(1, "refund")
    /\ resp[1].code >= 400
    /\ calls[1][1] = <<"GET /payments", "200">> )
  => Get(store[pid[1]], "status", "") = Get(seen[1], "status", "")


\* a create that found no payment and whose store calls all succeeded
CreatedCleanly ==
  /\ Finished(1, "create")
  /\ Len(calls[1]) >= 2
  /\ calls[1][1] = <<"GET /payments", "404">>
  /\ \A i \in 2..Len(calls[1]) : calls[1][i][2] = "200"

Resolved(p) == IF Get(p, "amount", 0) > 0 THEN "completed" ELSE "failed"

\* C18: with the sync flag on and a pending payload, a clean create writes
\* the resolved status (completed for amount > 0, failed otherwise) and
\* returns it; with the flag off or another status it issues no update and
\* the stored and returned record is the inserted one.
C18_ResolvesIffSyncAndPending ==
  CreatedCleanly =>
    IF sync /\ Lower(payload[1].status) = "pending"
      THEN /\ calls[1] = <<<<"GET /payments", "404">>, <<"POST /payments", "200">>,
                           <<"PUT /payments", "200">>>>
           /\ store[pid[1]] = Put(payload[1], "status", Resolved(payload[1]))
           /\ resp[1] = Ok(201, store[pid[1]])
      ELSE /\ calls[1] = <<<<"GET /payments", "404">>, <<"POST /payments", "200">>>>
           /\ store[pid[1]] = payload[1]
           /\ resp[1] = Ok(201, payload[1])

C18_ResolvedToFailed ==
  /\ CreatedCleanly /\ sync
  /\ payload[1].status = "pending" /\ payload[1].amount <= 0
  /\ Get(store[pid[1]], "status", "") = "failed"
  /\ Get(resp[1].body, "status", "") = "failed"


\* the ways the lookup can fail other than with a 404
LookupErrors == {"500", "timeout", "neterror", "raised", "200-nojson"}

LookupErrored(w) ==
  /\ op[w] = "create"
  /\ Len(calls[w]) >= 1
  /\ calls[w][1][1] = "GET /payments"
  /\ calls[w][1][2] \in LookupErrors

\* the error of a failed lookup as the caller is to see it: the store's
\* status, 504 for a timeout, 502 for a network error, the exception itself
\* otherwise
PassedThrough(o) ==
  CASE o = "500" -> Err(500, "db")
    [] o = "timeout" -> Err(504, "db")
    [] o = "neterror" -> Err(502, "db")
    [] OTHER -> Unhandled

\* C19: a create whose existence lookup fails with a store error other
\* than 404 answers with that error and has issued no call but the lookup:
\* no insert, no update.
C19_LookupErrorPassesThrough ==
  \A w \in Workers :
    LookupErrored(w) =>
      /\ pc[w] = "done"
      /\ resp[w] = PassedThrough(calls[w][1][2])
      /\ Len(calls[w]) = 1

C19_LookupTimedOut ==
  \E w \in Workers :
    /\ LookupErrored(w)
    /\ resp[w] = Err(504, "db")
    /\ store[pid[w]] = Absent

====
